---- MODULE Spec2Model ----
(***************************************************************************)
(* Token Metadata program: Burn and Delegate handlers over one asset.      *)
(*                                                                         *)
(* The state is the content of the accounts the handlers read and write:   *)
(* the Metadata account, the mint and the token (balance) account of the   *)
(* ledger, the TokenRecord account and the metadata delegate records.      *)
(* One action per instruction; an instruction is atomic: the handler runs  *)
(* on a working copy of the accounts and the result is kept only when the  *)
(* handler returns Ok.                                                     *)
(***************************************************************************)
EXTENDS Integers, Sequences, FiniteSets, TLC

\* ------------------------------------------------------------------ bounds

\* largest amount an instruction may request
MaxAmount == 2

\* ------------------------------------------------------------- identities

Keys == {"alice", "bob", "carol"}
Holder == "alice"
UpdateAuthority == "bob"
Mint == "mintA"
OtherMint == "mintB"

None == "None"

PROGRAM == "token_metadata"
SPL_TOKEN == "spl_token"
SYSTEM_PROGRAM == "system_program"
SYSVAR_INSTRUCTIONS == "sysvar_instructions"
OtherKey == "other"

TokenStandard ==
    {"NonFungible", "FungibleAsset", "Fungible", "NonFungibleEdition", "ProgrammableNonFungible"}

TokenState == {"Unlocked", "Locked", "Listed"}

TokenDelegateRole == {"Sale", "Transfer", "Utility"}

MetadataDelegateRole == {"Collection", "Update"}

\* ------------------------------------------------------------------ state

VARIABLES
    metadata,          \* Metadata account of the mint
    mint_account,      \* ledger mint: supply, decimals
    token,             \* ledger token account: owner, mint, amount, delegate, frozen
    token_record,      \* TokenRecord account (exists = FALSE: closed / no data)
    delegate_records,  \* metadata delegate records, keyed (mint, role, approver, delegate)
    last               \* the last instruction: input, result, accounts before, handler trace

vars == <<metadata, mint_account, token, token_record, delegate_records, last>>

\* closed TokenRecord account
NoTokenRecord ==
    [exists |-> FALSE, state |-> "Unlocked", delegate |-> None, delegate_role |-> None]

\* the accounts as one value
Accounts ==
    [metadata |-> metadata, mint_account |-> mint_account, token |-> token,
     token_record |-> token_record, delegate_records |-> delegate_records]

\* ---------------------------------------------------------------- results

Ok(S, tr) == [result |-> "Ok", st |-> S, trace |-> tr, authority_type |-> None]

Err(S, e, tr) == [result |-> e, st |-> S, trace |-> tr, authority_type |-> None]

\* ------------------------------------------------------- ledger primitives

\* utils::thaw: the balance account can be transferred and burned again
thaw(S) == [S EXCEPT !.token.frozen = FALSE]

\* utils::freeze: the balance account is disabled
freeze(S) == [S EXCEPT !.token.frozen = TRUE]

\* spl_token approve: the ledger-level delegation (principal, spendable amount)
approve(S, delegate_key, amount) ==
    [S EXCEPT !.token.delegate = delegate_key, !.token.delegated_amount = amount]

\* spl_token revoke
revoke_approval(S) ==
    [S EXCEPT !.token.delegate = None, !.token.delegated_amount = 0]

\* burn_nonfungible: one token leaves the balance and the supply
burn_nonfungible(S) ==
    [S EXCEPT !.token.amount = @ - 1, !.mint_account.supply = @ - 1]

\* burn_fungible: amount tokens leave the balance and the supply
burn_fungible(S, amount) ==
    [S EXCEPT !.token.amount = @ - amount, !.mint_account.supply = @ - amount]

\* close_program_account on the TokenRecord
close_program_account(S) == [S EXCEPT !.token_record = NoTokenRecord]

\* ---------------------------------------------------- authority resolver

\* one category test of AuthorityType::get_authority_type
AuthorityMatches(cat, S, req) ==
    CASE cat = "Metadata" -> req.authority = req.update_authority
      [] cat = "Holder" ->
            /\ req.token_account
            /\ S.token.owner = req.authority
            /\ S.token.mint = req.mint
            /\ S.token.amount > 0
      [] cat = "TokenDelegate" ->
            /\ req.token_record_info # None
            /\ S.token_record.exists
            /\ S.token_record.delegate = req.authority
            /\ S.token_record.delegate_role \in req.token_delegate_roles
      [] cat = "Other" -> TRUE
      [] OTHER -> FALSE

RECURSIVE FirstMatch(_, _, _)
FirstMatch(precedence, S, req) ==
    IF precedence = << >> THEN None
    ELSE IF AuthorityMatches(Head(precedence), S, req) THEN Head(precedence)
    ELSE FirstMatch(Tail(precedence), S, req)

\* the first category of the precedence list the requester satisfies
get_authority_type(S, req) == FirstMatch(req.precedence, S, req)

\* assertions::assert_currently_holding: "Ok" or the error
assert_currently_holding(S, ctx) ==
    IF ctx.metadata_owner # PROGRAM THEN "IncorrectOwner"
    ELSE IF ctx.mint_owner # SPL_TOKEN THEN "IncorrectOwner"
    ELSE IF ctx.token_owner # SPL_TOKEN THEN "IncorrectOwner"
    ELSE IF S.token.owner # ctx.authority THEN "InvalidOwner"
    ELSE IF S.token.mint # ctx.mint_info THEN "MintMismatch"
    ELSE IF S.token.amount < 1 THEN "NotEnoughTokens"
    ELSE IF ctx.mint_info # S.metadata.mint THEN "MintMismatch"
    ELSE "Ok"

\* utils::check_token_standard: inferred from the mint and the edition account
check_token_standard(S, ctx) ==
    IF S.mint_account.decimals = 0 /\ S.mint_account.supply = 1 /\ ctx.edition_info # None
    THEN "NonFungible"
    ELSE IF S.mint_account.decimals = 0 THEN "FungibleAsset"
    ELSE "Fungible"

\* ------------------------------------------------------------------- Burn

\* mutant: only the Listed state is refused
token_state_allows_burn_ListedOnly(S) == S.token_record.state # "Listed"

\* lines 167-170: Locked and Listed states cannot be burned
token_state_allows_burn(S) == S.token_record.state = "Unlocked"

\* mutant: the token record is left open after the burn
burn_programmable_NoClose(S) == burn_nonfungible(thaw(S))

\* lines 172-187: thaw, burn, close the token record
burn_programmable(S) == close_program_account(burn_nonfungible(thaw(S)))

\* mutant: a Burn without the token record account goes on
token_record_missing_Ignored(ctx) == FALSE

\* lines 162-164: the token record account was not passed
token_record_missing(ctx) == ctx.token_record_info = None

\* mutant: the token record is closed before the token is burned
programmable_burn_steps_CloseFirst ==
    <<"check_state", "thaw", "close_token_record", "burn">>

\* lines 167-187: the calls of a programmable burn, in program order
programmable_burn_steps == <<"check_state", "thaw", "burn", "close_token_record">>

\* the part of burn_v1 after the amount and edition checks: match token_standard
burn_by_standard(S, ctx, token_standard) ==
    CASE token_standard = "NonFungible" ->
            Ok(burn_nonfungible(S), <<"burn">>)
      [] token_standard = "NonFungibleEdition" ->
            Ok(burn_nonfungible(S), <<"burn">>)
      [] token_standard = "ProgrammableNonFungible" ->
            IF ctx.token_record_info # None /\ ~S.token_record.exists
            THEN Err(S, "DataTypeMismatch", << >>)
            ELSE IF token_record_missing(ctx)
            THEN Err(S, "MissingTokenRecord", << >>)
            ELSE IF ~token_state_allows_burn(S)
            THEN Err(S, "IncorrectTokenState", <<"check_state">>)
            ELSE Ok(burn_programmable(S), programmable_burn_steps)
      [] OTHER ->
            IF S.token.amount < ctx.amount
            THEN Err(S, "InsufficientFunds", << >>)
            ELSE Ok(burn_fungible(S, ctx.amount), <<"burn">>)

\* mutant: the delegate is tried before the holder
burn_authority_request_DelegateFirst(S, ctx) ==
    [authority |-> ctx.authority,
     update_authority |-> S.metadata.update_authority,
     mint |-> ctx.mint_info,
     token_account |-> TRUE,
     token_record_info |-> ctx.token_record_info,
     token_delegate_roles |-> {"Utility"},
     precedence |-> <<"TokenDelegate", "Holder">>]

\* mutant: every token delegate role is accepted
burn_authority_request_AnyRole(S, ctx) ==
    [authority |-> ctx.authority,
     update_authority |-> S.metadata.update_authority,
     mint |-> ctx.mint_info,
     token_account |-> TRUE,
     token_record_info |-> ctx.token_record_info,
     token_delegate_roles |-> TokenDelegateRole,
     precedence |-> <<"Holder", "TokenDelegate">>]

\* lines 70-80: the AuthorityRequest of burn_v1
burn_authority_request(S, ctx) ==
    [authority |-> ctx.authority,
     update_authority |-> S.metadata.update_authority,
     mint |-> ctx.mint_info,
     token_account |-> TRUE,
     token_record_info |-> ctx.token_record_info,
     token_delegate_roles |-> {"Utility"},
     precedence |-> <<"Holder", "TokenDelegate">>]

\* mutant: the delegate's amount is not compared with the balance
burn_authority_check_NoBalance(S, ctx, authority_type) ==
    CASE authority_type = "Holder" -> assert_currently_holding(S, ctx)
      [] authority_type = "TokenDelegate" ->
            IF S.token.mint # ctx.mint_info THEN "MintMismatch"
            ELSE IF S.token.mint # S.metadata.mint THEN "MintMismatch"
            ELSE "Ok"
      [] OTHER -> "InvalidAuthorityType"

\* mutant: the default arm accepts
burn_authority_check_NoDefault(S, ctx, authority_type) ==
    CASE authority_type = "Holder" -> assert_currently_holding(S, ctx)
      [] authority_type = "TokenDelegate" ->
            IF S.token.mint # ctx.mint_info THEN "MintMismatch"
            ELSE IF S.token.amount < ctx.amount THEN "InsufficientTokenBalance"
            ELSE IF S.token.mint # S.metadata.mint THEN "MintMismatch"
            ELSE "Ok"
      [] OTHER -> "Ok"

\* lines 82-116: the checks of each authority type: "Ok" or the error
burn_authority_check(S, ctx, authority_type) ==
    CASE authority_type = "Holder" -> assert_currently_holding(S, ctx)
      [] authority_type = "TokenDelegate" ->
            IF S.token.mint # ctx.mint_info THEN "MintMismatch"
            ELSE IF S.token.amount < ctx.amount THEN "InsufficientTokenBalance"
            ELSE IF S.token.mint # S.metadata.mint THEN "MintMismatch"
            ELSE "Ok"
      [] OTHER -> "InvalidAuthorityType"

\* mutant: the programmable standard is left out
is_nonfungible_kind_NoProgrammable(token_standard) ==
    token_standard \in {"NonFungibleEdition", "NonFungible"}

\* lines 126-131: the standards that burn one item and need the edition
is_nonfungible_kind(token_standard) ==
    token_standard \in {"NonFungibleEdition", "NonFungible", "ProgrammableNonFungible"}

\* mutant: the standard is always inferred from the mint and the edition
burn_token_standard_Inferred(S, ctx) == check_token_standard(S, ctx)

\* lines 118-122: the stored token standard, inferred only when it is absent
burn_token_standard(S, ctx) ==
    IF S.metadata.token_standard # None THEN S.metadata.token_standard
    ELSE check_token_standard(S, ctx)

\* mutant: the token state is checked before the amount and the edition
burn_checked_StateFirst(S, ctx) ==
    LET token_standard == burn_token_standard(S, ctx)
    IN  IF /\ token_standard = "ProgrammableNonFungible"
           /\ S.token_record.exists
           /\ ~token_state_allows_burn(S)
        THEN Err(S, "IncorrectTokenState", <<"check_state">>)
        ELSE IF is_nonfungible_kind(token_standard) /\ ctx.amount # 1
        THEN Err(S, "InvalidAmount", << >>)
        ELSE IF is_nonfungible_kind(token_standard) /\ ctx.edition_info = None
        THEN Err(S, "MissingEdition", << >>)
        ELSE burn_by_standard(S, ctx, token_standard)

\* lines 118-139: the token standard, then the amount and edition checks
burn_checked(S, ctx) ==
    LET token_standard == burn_token_standard(S, ctx)
    IN  IF is_nonfungible_kind(token_standard) /\ ctx.amount # 1
        THEN Err(S, "InvalidAmount", << >>)
        ELSE IF is_nonfungible_kind(token_standard) /\ ctx.edition_info = None
        THEN Err(S, "MissingEdition", << >>)
        ELSE burn_by_standard(S, ctx, token_standard)

\* burn_v1 from authority resolution on
burn_authorized(S, ctx) ==
    LET authority_type == get_authority_type(S, burn_authority_request(S, ctx))
        checked == burn_authority_check(S, ctx, authority_type)
        r == IF checked # "Ok" THEN Err(S, checked, << >>) ELSE burn_checked(S, ctx)
    IN  [r EXCEPT !.authority_type = authority_type]

\* mutant: the program accounts are not compared with their identities
burn_validate_accounts_NoProgramIds(ctx) ==
    IF ~ctx.authority_signer THEN "MissingRequiredSignature"
    ELSE IF ctx.metadata_owner # PROGRAM THEN "IncorrectOwner"
    ELSE IF ctx.mint_owner # SPL_TOKEN THEN "IncorrectOwner"
    ELSE IF ctx.token_owner # SPL_TOKEN THEN "IncorrectOwner"
    ELSE IF ctx.edition_info # None /\ ctx.edition_owner # PROGRAM THEN "IncorrectOwner"
    ELSE "Ok"

\* mutant: the signature of the authority is not required
burn_validate_accounts_NoSigner(ctx) ==
    IF ctx.metadata_owner # PROGRAM THEN "IncorrectOwner"
    ELSE IF ctx.mint_owner # SPL_TOKEN THEN "IncorrectOwner"
    ELSE IF ctx.token_owner # SPL_TOKEN THEN "IncorrectOwner"
    ELSE IF ctx.edition_info # None /\ ctx.edition_owner # PROGRAM THEN "IncorrectOwner"
    ELSE IF ctx.spl_token_program_info # SPL_TOKEN THEN "IncorrectProgramId"
    ELSE IF ctx.system_program_info # SYSTEM_PROGRAM THEN "IncorrectProgramId"
    ELSE IF ctx.sysvar_instructions_info # SYSVAR_INSTRUCTIONS THEN "IncorrectProgramId"
    ELSE "Ok"

\* lines 24-62: signer, account owners, program ids; "Ok" or the error
burn_validate_accounts(ctx) ==
    IF ~ctx.authority_signer THEN "MissingRequiredSignature"
    ELSE IF ctx.metadata_owner # PROGRAM THEN "IncorrectOwner"
    ELSE IF ctx.mint_owner # SPL_TOKEN THEN "IncorrectOwner"
    ELSE IF ctx.token_owner # SPL_TOKEN THEN "IncorrectOwner"
    ELSE IF ctx.edition_info # None /\ ctx.edition_owner # PROGRAM THEN "IncorrectOwner"
    ELSE IF ctx.spl_token_program_info # SPL_TOKEN THEN "IncorrectProgramId"
    ELSE IF ctx.system_program_info # SYSTEM_PROGRAM THEN "IncorrectProgramId"
    ELSE IF ctx.sysvar_instructions_info # SYSVAR_INSTRUCTIONS THEN "IncorrectProgramId"
    ELSE "Ok"

\* burn_v1: account validation, then the rest
burn_v1(S, ctx) ==
    LET validated == burn_validate_accounts(ctx)
    IN  IF validated # "Ok" THEN Err(S, validated, << >>)
        ELSE burn_authorized(S, ctx)

\* --------------------------------------------------------------- Delegate

\* the record create_pda_account writes
MetadataDelegateRecord(mint, role, approver, delegate) ==
    [mint |-> mint, role |-> role, approver |-> approver, delegate |-> delegate]

\* mutant: the record is looked up by mint and role only
DelegateRecordExists_ByRole(S, ctx, delegate_role) ==
    \E rec \in S.delegate_records :
        rec.mint = ctx.mint_info /\ rec.role = delegate_role

\* mutant: the record account is always taken to be empty
DelegateRecordExists_Never(S, ctx, delegate_role) == FALSE

\* data_is_empty negated: the record of that key holds data
DelegateRecordExists(S, ctx, delegate_role) ==
    MetadataDelegateRecord(ctx.mint_info, delegate_role, ctx.approver, ctx.delegate)
        \in S.delegate_records

\* mutant: the new delegate is also written as the update authority
create_pda_account_TakesAuthority(S, ctx, delegate_role) ==
    IF ctx.delegate_record_info # "pda" THEN Err(S, "DerivedKeyInvalid", << >>)
    ELSE IF DelegateRecordExists(S, ctx, delegate_role)
    THEN Err(S, "DelegateAlreadyExists", << >>)
    ELSE Ok([S EXCEPT !.delegate_records =
                @ \cup {MetadataDelegateRecord(ctx.mint_info, delegate_role,
                                               ctx.approver, ctx.delegate)},
                      !.metadata.update_authority = ctx.delegate],
            <<"create_delegate_record">>)

\* create_pda_account: derivation, record must not exist, allocate and write
create_pda_account(S, ctx, delegate_role) ==
    IF ctx.delegate_record_info # "pda" THEN Err(S, "DerivedKeyInvalid", << >>)
    ELSE IF DelegateRecordExists(S, ctx, delegate_role)
    THEN Err(S, "DelegateAlreadyExists", << >>)
    ELSE Ok([S EXCEPT !.delegate_records =
                @ \cup {MetadataDelegateRecord(ctx.mint_info, delegate_role,
                                               ctx.approver, ctx.delegate)}],
            <<"create_delegate_record">>)

\* assertions::metadata::assert_update_authority_is_correct: "Ok" or the error
assert_update_authority_is_correct(S, ctx) ==
    IF S.metadata.update_authority # ctx.approver THEN "UpdateAuthorityIncorrect"
    ELSE IF ~ctx.approver_signer THEN "UpdateAuthorityIsNotSigner"
    ELSE "Ok"

\* mutant: the approver is not compared with the update authority
approver_is_update_authority_Skipped(S, ctx) == "Ok"

\* lines 95-97: the approver must be the update authority of the metadata
approver_is_update_authority(S, ctx) == assert_update_authority_is_correct(S, ctx)

\* create_delegate_v1: a metadata delegate (Collection, Update)
create_delegate_v1(S, ctx, role) ==
    IF ~ctx.payer_signer THEN Err(S, "MissingRequiredSignature", << >>)
    ELSE IF ~ctx.approver_signer THEN Err(S, "MissingRequiredSignature", << >>)
    ELSE IF ctx.metadata_owner # PROGRAM THEN Err(S, "IncorrectOwner", << >>)
    ELSE IF ctx.mint_owner # SPL_TOKEN THEN Err(S, "IncorrectOwner", << >>)
    ELSE IF ctx.system_program_info # SYSTEM_PROGRAM THEN Err(S, "KeyMismatch", << >>)
    ELSE IF ctx.sysvar_instructions_info # SYSVAR_INSTRUCTIONS
    THEN Err(S, "KeyMismatch", << >>)
    ELSE IF approver_is_update_authority(S, ctx) # "Ok"
    THEN Err(S, approver_is_update_authority(S, ctx), << >>)
    ELSE IF S.metadata.mint # ctx.mint_info THEN Err(S, "MintMismatch", << >>)
    ELSE IF ctx.delegate_record_info = None THEN Err(S, "MissingTokenAccount", << >>)
    ELSE create_pda_account(S, ctx, role)

\* mutant: the check is dropped
sale_delegate_is_set_Never(S) == FALSE

\* mutant: the token state is read instead of the role
sale_delegate_is_set_ByState(S) == S.token_record.state = "Listed"

\* mutant: any delegate blocks the creation
sale_delegate_is_set_AnyRole(S) == S.token_record.delegate_role # None

\* lines 215-221: a delegate is replaced only if a sale delegate is not set
sale_delegate_is_set(S) == S.token_record.delegate_role = "Sale"

\* mutant: the role is not written
SetTokenRecordDelegate_NoRole(S, delegate_key, role) ==
    [S EXCEPT !.token_record.delegate = delegate_key]

\* lines 223-225: delegate and role are written to the TokenRecord
SetTokenRecordDelegate(S, delegate_key, role) ==
    [S EXCEPT !.token_record.delegate = delegate_key,
              !.token_record.delegate_role = role]

\* mutant: the balance account is not frozen again
approve_thawed_NoFreeze(S, delegate_key, amount) ==
    approve(thaw(S), delegate_key, amount)

\* mutant: the delegation is not recorded by spl-token
approve_thawed_NoApprove(S, delegate_key, amount) ==
    freeze(thaw(S))

\* lines 227-277 on a programmable asset: thaw, spl-token approve, freeze
approve_thawed(S, delegate_key, amount) ==
    freeze(approve(thaw(S), delegate_key, amount))

\* mutant: a closed account is read as an empty TokenRecord
token_record_readable_Always(S) == TRUE

\* lines 203-206: TokenRecord::from_account_info reads the account's data
token_record_readable(S) == S.token_record.exists

\* mutant: the balance account is frozen before the delegation is recorded
programmable_delegate_steps_FreezeFirst ==
    <<"write_token_record", "thaw", "freeze", "approve">>

\* lines 223-277: the calls of a programmable delegation, in program order
programmable_delegate_steps == <<"write_token_record", "thaw", "approve", "freeze">>

\* mutant: a delegation without master edition account goes on
master_edition_missing_Ignored(ctx) == FALSE

\* lines 227-238: the master edition account was not passed
master_edition_missing(ctx) == ctx.master_edition_info = None

\* create_persistent_delegate_v1, programmable branch and what follows it
delegate_programmable(S, ctx, role, amount) ==
    IF ctx.token_record_info = None THEN Err(S, "MissingTokenRecord", << >>)
    ELSE IF ctx.token_record_info # "pda" THEN Err(S, "KeyMismatch", << >>)
    ELSE IF ctx.token_record_owner # PROGRAM THEN Err(S, "IncorrectOwner", << >>)
    ELSE IF ~token_record_readable(S) THEN Err(S, "DataTypeMismatch", << >>)
    ELSE IF sale_delegate_is_set(S)
    THEN Err(S, "DelegateAlreadyExists", << >>)
    ELSE
        LET written == SetTokenRecordDelegate(S, ctx.delegate, role)
        IN  IF master_edition_missing(ctx)
            THEN Err(written, "MissingEditionAccount", <<"write_token_record">>)
            ELSE IF ctx.master_edition_owner # PROGRAM
            THEN Err(written, "IncorrectOwner", <<"write_token_record">>)
            ELSE Ok(approve_thawed(written, ctx.delegate, amount),
                    programmable_delegate_steps)

\* mutant: the Sale role is accepted for every standard
sale_only_programmable_Dropped(role) == FALSE

\* lines 239-242: Sale delegate only available for programmable assets
sale_only_programmable(role) == role = "Sale"

\* mutant: every standard gets the programmable treatment of the ledger
delegate_ledger_only_Frozen(S, ctx, amount) ==
    Ok(approve_thawed(S, ctx.delegate, amount), programmable_delegate_steps)

\* lines 244-279 when the stored standard is not programmable: the spl-token
\* approve alone, the freeze of lines 261-277 is skipped
delegate_ledger_only(S, ctx, amount) ==
    Ok(approve(S, ctx.delegate, amount), <<"approve">>)

\* create_persistent_delegate_v1: a token delegate (Sale, Transfer, Utility)
create_persistent_delegate_v1(S, ctx, role, amount) ==
    IF ctx.token_info = None THEN Err(S, "MissingTokenAccount", << >>)
    ELSE IF ctx.spl_token_program_info = None THEN Err(S, "MissingSplTokenProgram", << >>)
    ELSE IF ~ctx.payer_signer THEN Err(S, "MissingRequiredSignature", << >>)
    ELSE IF ~ctx.approver_signer THEN Err(S, "MissingRequiredSignature", << >>)
    ELSE IF ctx.metadata_owner # PROGRAM THEN Err(S, "IncorrectOwner", << >>)
    ELSE IF ctx.mint_owner # SPL_TOKEN THEN Err(S, "IncorrectOwner", << >>)
    ELSE IF ctx.token_owner # SPL_TOKEN THEN Err(S, "IncorrectOwner", << >>)
    ELSE IF ctx.system_program_info # SYSTEM_PROGRAM THEN Err(S, "KeyMismatch", << >>)
    ELSE IF ctx.sysvar_instructions_info # SYSVAR_INSTRUCTIONS
    THEN Err(S, "KeyMismatch", << >>)
    ELSE IF ctx.spl_token_program_info # SPL_TOKEN THEN Err(S, "KeyMismatch", << >>)
    ELSE IF S.metadata.mint # ctx.mint_info THEN Err(S, "MintMismatch", << >>)
    ELSE IF S.token.owner # ctx.approver THEN Err(S, "IncorrectOwner", << >>)
    ELSE IF S.metadata.token_standard = "ProgrammableNonFungible"
    THEN delegate_programmable(S, ctx, role, amount)
    ELSE IF sale_only_programmable(role) THEN Err(S, "InvalidTokenStandard", << >>)
    ELSE delegate_ledger_only(S, ctx, amount)

\* delegate: dispatch on the DelegateArgs variant
delegate(S, ctx) ==
    CASE ctx.args = "CollectionV1" -> create_delegate_v1(S, ctx, "Collection")
      [] ctx.args = "SaleV1" -> create_persistent_delegate_v1(S, ctx, "Sale", ctx.amount)
      [] ctx.args = "TransferV1" ->
            create_persistent_delegate_v1(S, ctx, "Transfer", ctx.amount)
      [] ctx.args = "UpdateV1" -> create_delegate_v1(S, ctx, "Update")
      [] ctx.args = "UtilityV1" ->
            create_persistent_delegate_v1(S, ctx, "Utility", ctx.amount)

\* ----------------------------------------------------------------- Revoke

\* revoke of a token delegate: the delegate itself, the holder or the update
\* authority; the inverse of the creation plus a thaw
revoke(S, ctx) ==
    IF ~ctx.authority_signer THEN Err(S, "MissingRequiredSignature", << >>)
    ELSE IF ~S.token_record.exists THEN Err(S, "MissingTokenRecord", << >>)
    ELSE IF S.token_record.delegate = None THEN Err(S, "DelegateNotFound", << >>)
    ELSE IF ctx.authority \notin
                {S.token_record.delegate, S.token.owner, S.metadata.update_authority}
    THEN Err(S, "InvalidAuthorityType", << >>)
    ELSE Ok(thaw(revoke_approval(
                [S EXCEPT !.token_record.delegate = None,
                          !.token_record.delegate_role = None,
                          !.token_record.state = "Unlocked"])),
            <<"clear_token_record", "revoke", "thaw">>)

\* ----------------------------------------------------------------- inputs

\* a well-formed Burn context of the holder
BurnBase ==
    [authority |-> Holder, authority_signer |-> TRUE,
     metadata_owner |-> PROGRAM, mint_owner |-> SPL_TOKEN, token_owner |-> SPL_TOKEN,
     edition_info |-> "edition", edition_owner |-> PROGRAM,
     spl_token_program_info |-> SPL_TOKEN, system_program_info |-> SYSTEM_PROGRAM,
     sysvar_instructions_info |-> SYSVAR_INSTRUCTIONS,
     mint_info |-> Mint, token_record_info |-> "pda", amount |-> 1]

\* Burn contexts that pass the account validation
BurnRequests ==
    {[BurnBase EXCEPT !.authority = a, !.amount = n, !.edition_info = e,
                      !.token_record_info = r] :
        a \in Keys, n \in 1..MaxAmount, e \in {None, "edition"}, r \in {None, "pda"}}

\* Burn contexts with one account that fails validation
BurnFaults ==
    UNION {{[b EXCEPT !.authority_signer = FALSE],
            [b EXCEPT !.metadata_owner = OtherKey],
            [b EXCEPT !.mint_owner = OtherKey],
            [b EXCEPT !.token_owner = OtherKey],
            [b EXCEPT !.edition_owner = OtherKey],
            [b EXCEPT !.spl_token_program_info = OtherKey],
            [b EXCEPT !.system_program_info = OtherKey],
            [b EXCEPT !.sysvar_instructions_info = OtherKey],
            [b EXCEPT !.mint_info = OtherMint]} :
           b \in {[BurnBase EXCEPT !.authority = a] : a \in {Holder, "carol"}}}

BurnInputs == BurnRequests \cup BurnFaults

\* a well-formed Delegate context: the holder approves, bob is the delegate
DelegateBase ==
    [args |-> "TransferV1", amount |-> 1, delegate |-> "bob", approver |-> Holder,
     payer_signer |-> TRUE, approver_signer |-> TRUE,
     metadata_owner |-> PROGRAM, mint_owner |-> SPL_TOKEN, token_owner |-> SPL_TOKEN,
     token_info |-> "token", spl_token_program_info |-> SPL_TOKEN,
     system_program_info |-> SYSTEM_PROGRAM,
     sysvar_instructions_info |-> SYSVAR_INSTRUCTIONS,
     mint_info |-> Mint,
     token_record_info |-> "pda", token_record_owner |-> PROGRAM,
     master_edition_info |-> "edition", master_edition_owner |-> PROGRAM,
     delegate_record_info |-> "pda"]

\* token delegate requests that pass the account validation
TokenDelegateRequests ==
    {[DelegateBase EXCEPT !.args = v, !.amount = n, !.delegate = d, !.approver = a,
                          !.token_record_info = r, !.master_edition_info = e] :
        v \in {"SaleV1", "TransferV1", "UtilityV1"}, n \in 1..MaxAmount,
        d \in {"bob", "carol"}, a \in {Holder, "carol"},
        r \in {None, "pda"}, e \in {None, "edition"}}

\* the holder names itself as the delegate
SelfDelegateRequests ==
    {[DelegateBase EXCEPT !.args = v, !.delegate = Holder] : v \in {"UtilityV1", "SaleV1"}}

\* metadata delegate requests that pass the account validation
MetadataDelegateRequests ==
    {[DelegateBase EXCEPT !.args = v, !.delegate = d, !.approver = a,
                          !.delegate_record_info = r] :
        v \in {"CollectionV1", "UpdateV1"}, d \in {"carol"},
        a \in {UpdateAuthority, Holder}, r \in {None, "pda"}}

\* Delegate contexts with one account that fails validation
DelegateFaults ==
    UNION {{[b EXCEPT !.token_info = None],
            [b EXCEPT !.spl_token_program_info = None],
            [b EXCEPT !.payer_signer = FALSE],
            [b EXCEPT !.approver_signer = FALSE],
            [b EXCEPT !.metadata_owner = OtherKey],
            [b EXCEPT !.mint_owner = OtherKey],
            [b EXCEPT !.token_owner = OtherKey],
            [b EXCEPT !.system_program_info = OtherKey],
            [b EXCEPT !.sysvar_instructions_info = OtherKey],
            [b EXCEPT !.spl_token_program_info = OtherKey],
            [b EXCEPT !.mint_info = OtherMint],
            [b EXCEPT !.token_record_info = OtherKey],
            [b EXCEPT !.token_record_owner = OtherKey],
            [b EXCEPT !.master_edition_owner = OtherKey],
            [b EXCEPT !.delegate_record_info = OtherKey]} :
           b \in {[DelegateBase EXCEPT !.args = "SaleV1"],
                  [DelegateBase EXCEPT !.args = "UtilityV1"],
                  [DelegateBase EXCEPT !.args = "UpdateV1", !.approver = UpdateAuthority,
                                       !.delegate = "carol"]}}

DelegateInputs ==
    TokenDelegateRequests \cup SelfDelegateRequests \cup MetadataDelegateRequests
        \cup DelegateFaults

RevokeInputs ==
    {[authority |-> a, authority_signer |-> s] : a \in Keys, s \in BOOLEAN}

\* ------------------------------------------------------------------- Init

\* the TokenRecord of a programmable asset together with its balance account:
\* Unlocked without delegate, Locked under a Transfer or Utility delegate,
\* Listed under a Sale delegate; a locked or listed balance is frozen
InitTokenStates ==
    {[rec |-> [exists |-> TRUE, state |-> "Unlocked", delegate |-> None,
               delegate_role |-> None],
      delegate |-> None, delegated_amount |-> 0, frozen |-> f] : f \in BOOLEAN}
    \cup
    {[rec |-> [exists |-> TRUE, state |-> "Locked", delegate |-> "bob",
               delegate_role |-> r],
      delegate |-> "bob", delegated_amount |-> 1, frozen |-> TRUE] :
        r \in {"Transfer", "Utility"}}
    \cup
    {[rec |-> [exists |-> TRUE, state |-> "Listed", delegate |-> "bob",
               delegate_role |-> "Sale"],
      delegate |-> "bob", delegated_amount |-> 1, frozen |-> TRUE]}

Init ==
    /\ metadata = [update_authority |-> UpdateAuthority, mint |-> Mint,
                   token_standard |-> "ProgrammableNonFungible",
                   primary_sale_happened |-> FALSE, is_mutable |-> TRUE]
    /\ mint_account = [supply |-> 1, decimals |-> 0]
    /\ \E t \in InitTokenStates :
          /\ token_record = t.rec
          /\ token = [owner |-> Holder, mint |-> Mint, amount |-> 1,
                      delegate |-> t.delegate, delegated_amount |-> t.delegated_amount,
                      frozen |-> t.frozen]
    /\ delegate_records = {}
    /\ last = [op |-> None, ctx |-> [args |-> None], result |-> None, trace |-> << >>,
               authority_type |-> None, pre |-> Accounts, raw |-> Accounts]

\* ---------------------------------------------------------------- actions

\* mutant: what the handler wrote is kept whatever it returns
process_instruction_NoRollback(op, ctx, r) ==
    /\ metadata' = r.st.metadata
    /\ mint_account' = r.st.mint_account
    /\ token' = r.st.token
    /\ token_record' = r.st.token_record
    /\ delegate_records' = r.st.delegate_records
    /\ last' = [op |-> op, ctx |-> ctx, result |-> r.result, trace |-> r.trace,
                authority_type |-> r.authority_type, pre |-> Accounts, raw |-> r.st]

\* an instruction is atomic: the accounts the handler wrote are kept when it
\* returns Ok and discarded when it returns an error
process_instruction(op, ctx, r) ==
    LET post == IF r.result = "Ok" THEN r.st ELSE Accounts
    IN  /\ metadata' = post.metadata
        /\ mint_account' = post.mint_account
        /\ token' = post.token
        /\ token_record' = post.token_record
        /\ delegate_records' = post.delegate_records
        /\ last' = [op |-> op, ctx |-> ctx, result |-> r.result, trace |-> r.trace,
                    authority_type |-> r.authority_type, pre |-> Accounts, raw |-> r.st]

Burn == \E ctx \in BurnInputs : process_instruction("Burn", ctx, burn_v1(Accounts, ctx))

Delegate == \E ctx \in DelegateInputs : process_instruction("Delegate", ctx, delegate(Accounts, ctx))

Revoke == \E ctx \in RevokeInputs : process_instruction("Revoke", ctx, revoke(Accounts, ctx))

Next == Burn \/ Delegate \/ Revoke

Spec == Init /\ [][Next]_vars

\* --------------------------------------------- assets of every standard

\* the mint and the balance of an asset of each stored token standard; an
\* asset without stored standard (None) has any of these mints
InitAssets ==
    {[token_standard |-> ts, supply |-> 1, decimals |-> 0] :
        ts \in {"NonFungible", "NonFungibleEdition", "ProgrammableNonFungible", None}}
    \cup
    {[token_standard |-> ts, supply |-> 2, decimals |-> 0] : ts \in {"FungibleAsset", None}}
    \cup
    {[token_standard |-> ts, supply |-> 2, decimals |-> 1] : ts \in {"Fungible", None}}

\* one asset of any token standard, its whole supply held by the holder; only
\* a programmable asset has a TokenRecord (Unlocked)
InitStd ==
    /\ \E a \in InitAssets :
          /\ metadata = [update_authority |-> UpdateAuthority, mint |-> Mint,
                         token_standard |-> a.token_standard,
                         primary_sale_happened |-> FALSE, is_mutable |-> TRUE]
          /\ mint_account = [supply |-> a.supply, decimals |-> a.decimals]
          /\ token = [owner |-> Holder, mint |-> Mint, amount |-> a.supply,
                      delegate |-> None, delegated_amount |-> 0, frozen |-> FALSE]
          /\ token_record =
                IF a.token_standard = "ProgrammableNonFungible"
                THEN [exists |-> TRUE, state |-> "Unlocked", delegate |-> None,
                      delegate_role |-> None]
                ELSE NoTokenRecord
    /\ delegate_records = {}
    /\ last = [op |-> None, ctx |-> [args |-> None], result |-> None, trace |-> << >>,
               authority_type |-> None, pre |-> Accounts, raw |-> Accounts]

\* Burn and token delegate requests with valid accounts
BurnStd ==
    \E ctx \in BurnRequests : process_instruction("Burn", ctx, burn_v1(Accounts, ctx))

DelegateStd ==
    \E ctx \in TokenDelegateRequests :
        process_instruction("Delegate", ctx, delegate(Accounts, ctx))

NextStd == BurnStd \/ DelegateStd

SpecStd == InitStd /\ [][NextStd]_vars

\* ----------------------------------------------------------------- claims

TokenVariants == {"SaleV1", "TransferV1", "UtilityV1"}

RoleOf(args) ==
    CASE args = "SaleV1" -> "Sale"
      [] args = "TransferV1" -> "Transfer"
      [] args = "UtilityV1" -> "Utility"
      [] OTHER -> None

\* the last instruction created (or tried to create) a token delegate
LastTokenDelegate == last.op = "Delegate" /\ last.ctx.args \in TokenVariants

\* ... with valid accounts, approved by the owner of the balance account
LastTokenDelegateByHolder ==
    /\ LastTokenDelegate
    /\ last.ctx \in TokenDelegateRequests \cup SelfDelegateRequests
    /\ last.ctx.approver = last.pre.token.owner
    /\ last.ctx.token_record_info = "pda"

\* the last instruction was a Burn of one token with valid accounts, an edition
\* and the TokenRecord, requested by the holder or by the Utility delegate
LastBurnAuthorized ==
    /\ last.op = "Burn"
    /\ last.ctx \in BurnRequests
    /\ last.ctx.amount = 1
    /\ last.ctx.edition_info # None
    /\ last.ctx.token_record_info = "pda"
    /\ \/ last.ctx.authority = last.pre.token.owner /\ last.pre.token.amount > 0
       \/ /\ last.ctx.authority = last.pre.token_record.delegate
          /\ last.pre.token_record.delegate_role = "Utility"

\* C1: between operations, every TokenRecord is Locked or Listed exactly when
\* its delegate is set, and Unlocked exactly when it is unset.
C1_StateIffDelegate ==
    token_record.exists =>
        /\ (token_record.state \in {"Locked", "Listed"}) <=> (token_record.delegate # None)
        /\ (token_record.state = "Unlocked") <=> (token_record.delegate = None)

\* C2: the Sale scenario: a Sale delegate created on an Unlocked token makes it
\* Listed and frozen; a Burn while the Sale delegate is active fails with
\* IncorrectTokenState; revoking the Sale delegate gives Unlocked; a Burn of the
\* Unlocked token without delegate succeeds and closes the TokenRecord.
C2_SaleScenario ==
    /\ ( /\ LastTokenDelegateByHolder
         /\ last.ctx.args = "SaleV1" /\ last.ctx.amount = 1
         /\ last.pre.token_record.state = "Unlocked"
         /\ last.result = "Ok" )
        => token_record.state = "Listed" /\ token.frozen
    /\ ( /\ LastBurnAuthorized
         /\ last.ctx.authority = Holder
         /\ last.pre.token_record.exists
         /\ last.pre.token_record.delegate_role = "Sale" )
        => last.result = "IncorrectTokenState"
    /\ ( /\ last.op = "Revoke" /\ last.result = "Ok"
         /\ last.pre.token_record.delegate_role = "Sale" )
        => token_record.state = "Unlocked"
    /\ ( /\ LastBurnAuthorized
         /\ last.ctx.authority = Holder
         /\ last.pre.token_record.exists
         /\ last.pre.token_record.state = "Unlocked"
         /\ last.pre.token_record.delegate = None )
        => last.result = "Ok" /\ ~token_record.exists

\* C3: an authorized Burn of one token of a Locked or Listed programmable asset
\* fails with IncorrectTokenState, and the handler has written nothing.
C3_BurnLockedFails ==
    ( /\ LastBurnAuthorized
      /\ last.pre.token_record.exists
      /\ last.pre.token_record.state \in {"Locked", "Listed"} )
    => /\ last.result = "IncorrectTokenState"
       /\ last.raw = last.pre
       /\ token_record = last.pre.token_record
       /\ token = last.pre.token

C3_Witness ==
    /\ LastBurnAuthorized
    /\ last.pre.token_record.state = "Listed"
    /\ last.ctx.authority = Holder
    /\ last.result = "IncorrectTokenState"

\* C4: a token delegate of any role requested while the TokenRecord's role is
\* Sale fails with DelegateAlreadyExists, and no Delegate instruction removes
\* or overwrites the Sale delegate.
C4_SaleNotOverwritten ==
    ( /\ last.op = "Delegate"
      /\ last.pre.token_record.exists
      /\ last.pre.token_record.delegate_role = "Sale" )
    => /\ LastTokenDelegateByHolder => last.result = "DelegateAlreadyExists"
       /\ last.raw.token_record = last.pre.token_record
       /\ token_record = last.pre.token_record

C4_Witness ==
    /\ LastTokenDelegateByHolder
    /\ last.ctx.args = "TransferV1"
    /\ last.pre.token_record.delegate_role = "Sale"
    /\ last.result = "DelegateAlreadyExists"
    /\ token_record.delegate_role = "Sale"

\* C5: a successful token delegate creation on an Unlocked programmable asset
\* moves the state to Listed for Sale and to Locked for the other roles, and
\* leaves the balance account frozen.
C5_CreationTransition ==
    ( /\ LastTokenDelegate
      /\ last.result = "Ok"
      /\ last.pre.token_record.state = "Unlocked" )
    => /\ token_record.state =
            (IF last.ctx.args = "SaleV1" THEN "Listed" ELSE "Locked")
       /\ token.frozen

\* C6: between operations, a Locked or Listed TokenRecord has its balance
\* account frozen.
C6_LockedIsFrozen ==
    (token_record.exists /\ token_record.state \in {"Locked", "Listed"}) => token.frozen

C6_Witness ==
    /\ LastTokenDelegate
    /\ last.result = "Ok"
    /\ token_record.state = "Locked"
    /\ token.frozen

C8_RejectedUnlessUnlocked ==
    ( /\ LastTokenDelegate
      /\ last.pre.token_record.exists
      /\ last.pre.token_record.state # "Unlocked" )
    => last.result # "Ok"

\* C8 amended: with the TokenRecord not Unlocked at entry, a token delegate
\* creation is rejected when the record's delegate_role is Sale, and a valid
\* request of the holder is accepted when it is not.
C8_RejectedOnlyUnderSale ==
    ( /\ LastTokenDelegate
      /\ last.pre.token_record.exists
      /\ last.pre.token_record.state # "Unlocked" )
    => /\ last.pre.token_record.delegate_role = "Sale" => last.result # "Ok"
       /\ ( /\ last.pre.token_record.delegate_role # "Sale"
            /\ LastTokenDelegateByHolder
            /\ last.ctx.master_edition_info # None )
           => last.result = "Ok"

C8_Witness ==
    /\ LastTokenDelegateByHolder
    /\ last.pre.token_record.state = "Locked"
    /\ last.pre.token_record.delegate_role = "Utility"
    /\ last.ctx.args = "SaleV1"
    /\ last.result = "Ok"

\* C9: a Transfer or Utility delegate requested while a Transfer or Utility
\* delegate is active is created and replaces it: the TokenRecord holds the
\* delegate and role of the request.
C9_NonSaleReplaced ==
    ( /\ LastTokenDelegateByHolder
      /\ last.ctx.args \in {"TransferV1", "UtilityV1"}
      /\ last.ctx.master_edition_info # None
      /\ last.pre.token_record.exists
      /\ last.pre.token_record.delegate_role \in {"Transfer", "Utility"} )
    => /\ last.result = "Ok"
       /\ token_record.delegate = last.ctx.delegate
       /\ token_record.delegate_role = RoleOf(last.ctx.args)

C9_Witness ==
    /\ LastTokenDelegateByHolder
    /\ last.ctx.args = "UtilityV1"
    /\ last.ctx.delegate = "carol"
    /\ last.pre.token_record.delegate = "bob"
    /\ last.pre.token_record.delegate_role = "Transfer"
    /\ last.result = "Ok"
    /\ token_record.delegate = "carol"

\* C10: a TokenRecord holds a delegate together with a role or neither of the
\* two: never a delegate without a role or a role without a delegate.
C10_DelegateWithRole ==
    token_record.exists =>
        (token_record.delegate = None) <=> (token_record.delegate_role = None)

C10_Witness ==
    /\ LastTokenDelegate
    /\ last.result = "Ok"
    /\ last.pre.token_record.delegate = None
    /\ token_record.delegate # None
    /\ token_record.delegate_role # None

\* the requester of the last Burn satisfied the Holder test before the call
LastBurnByHolder ==
    /\ last.ctx.authority = last.pre.token.owner
    /\ last.pre.token.mint = last.ctx.mint_info
    /\ last.pre.token.amount > 0

\* the requester of the last Burn was the delegate of the supplied TokenRecord
\* with a role of the given set
LastBurnByDelegate(roles) ==
    /\ last.ctx.token_record_info # None
    /\ last.pre.token_record.exists
    /\ last.pre.token_record.delegate = last.ctx.authority
    /\ last.pre.token_record.delegate_role \in roles

\* C11: a Burn whose requester is neither the holder nor the Utility delegate
\* fails with InvalidAuthorityType, and no account has changed.
C11_BurnNoCategory ==
    ( /\ last.op = "Burn"
      /\ last.ctx \in BurnRequests
      /\ ~LastBurnByHolder
      /\ ~LastBurnByDelegate({"Utility"}) )
    => /\ last.result = "InvalidAuthorityType"
       /\ last.authority_type = None
       /\ last.raw = last.pre
       /\ Accounts = last.pre

C11_Witness ==
    /\ last.op = "Burn"
    /\ last.ctx \in BurnRequests
    /\ last.ctx.authority = "carol"
    /\ last.pre.token_record.delegate # "carol"
    /\ last.result = "InvalidAuthorityType"

\* longest precedence list tried
MaxPrecedence == 2

Categories == {"Metadata", "Holder", "TokenDelegate", "Other"}

PrecedenceLists == UNION {[1..n -> Categories] : n \in 0..MaxPrecedence}

AuthorityRequests ==
    {[authority |-> a, update_authority |-> metadata.update_authority, mint |-> Mint,
      token_account |-> TRUE, token_record_info |-> "pda",
      token_delegate_roles |-> {"Utility"}, precedence |-> p] :
        a \in Keys, p \in PrecedenceLists}

\* the resolver answers the first category of the list that matches, whatever
\* follows it in the list
FirstOfPrecedence(req) ==
    LET hits == {i \in 1..Len(req.precedence) :
                    AuthorityMatches(req.precedence[i], Accounts, req)}
        answer == get_authority_type(Accounts, req)
    IN  /\ hits = {} => answer = None
        /\ hits # {} =>
              /\ \E i \in hits : answer = req.precedence[i] /\ \A j \in hits : i <= j
              /\ \A c \in Categories :
                    get_authority_type(Accounts,
                        [req EXCEPT !.precedence = Append(@, c)]) = answer

\* C12: authority resolution answers the first category of the precedence list
\* the requester satisfies; a Burn requester who is both the holder and the
\* Utility delegate is classified as Holder.
C12_FirstCategoryWins ==
    /\ \A req \in AuthorityRequests : FirstOfPrecedence(req)
    /\ ( /\ last.op = "Burn"
         /\ last.ctx \in BurnRequests
         /\ LastBurnByHolder
         /\ LastBurnByDelegate({"Utility"}) )
        => last.authority_type = "Holder"

C12_Witness ==
    /\ last.op = "Burn"
    /\ last.ctx \in BurnRequests
    /\ LastBurnByHolder
    /\ LastBurnByDelegate({"Utility"})
    /\ last.authority_type = "Holder"

\* C13: a requester who is not the holder and is the TokenRecord delegate with
\* role Sale or Transfer is not authorized to Burn.
C13_OnlyUtilityBurns ==
    ( /\ last.op = "Burn"
      /\ last.ctx.authority # last.pre.token.owner
      /\ LastBurnByDelegate({"Sale", "Transfer"}) )
    => /\ last.result # "Ok"
       /\ last.authority_type = None
       /\ last.ctx \in BurnRequests => last.result = "InvalidAuthorityType"
       /\ Accounts = last.pre

C13_Witness ==
    /\ last.op = "Burn"
    /\ last.ctx \in BurnRequests
    /\ last.ctx.authority = "bob"
    /\ LastBurnByDelegate({"Transfer"})
    /\ last.pre.token_record.state = "Unlocked"
    /\ last.result = "InvalidAuthorityType"

\* C14: an authorized Burn of one token of an Unlocked programmable asset
\* succeeds; afterwards the TokenRecord does not exist and the balance account
\* has not been frozen again.
C14_BurnUnlockedCloses ==
    ( /\ LastBurnAuthorized
      /\ last.pre.token_record.exists
      /\ last.pre.token_record.state = "Unlocked" )
    => /\ last.result = "Ok"
       /\ token_record = NoTokenRecord
       /\ token.amount = last.pre.token.amount - 1
       /\ ~token.frozen
       /\ \A i \in 1..Len(last.trace) : last.trace[i] # "freeze"

C14_Witness ==
    /\ LastBurnAuthorized
    /\ last.pre.token_record.exists
    /\ last.pre.token_record.state = "Unlocked"
    /\ last.pre.token.frozen
    /\ last.result = "Ok"
    /\ ~token_record.exists

NonFungibleKinds == {"NonFungible", "NonFungibleEdition", "ProgrammableNonFungible"}

\* the last instruction was a Burn with valid accounts requested by the holder
\* or by the Utility delegate
LastBurnRequestAuthorized ==
    /\ last.op = "Burn"
    /\ last.ctx \in BurnRequests
    /\ LastBurnByHolder \/ LastBurnByDelegate({"Utility"})

\* C15 as stated: for the NonFungible, NonFungibleEdition and
\* ProgrammableNonFungible standards a Burn with amount different from 1 fails
\* with InvalidAmount and a Burn without edition account fails with
\* MissingEdition; for Fungible and FungibleAsset neither restriction applies.
C15_AmountAndEdition ==
    /\ ( /\ LastBurnRequestAuthorized
         /\ last.pre.metadata.token_standard \in NonFungibleKinds )
        => /\ last.ctx.amount # 1 => last.result = "InvalidAmount"
           /\ (last.ctx.amount = 1 /\ last.ctx.edition_info = None)
                => last.result = "MissingEdition"
    /\ ( /\ LastBurnRequestAuthorized
         /\ last.pre.metadata.token_standard \in {"Fungible", "FungibleAsset"} )
        => /\ last.result \notin {"InvalidAmount", "MissingEdition"}
           /\ last.ctx.amount <= last.pre.token.amount => last.result = "Ok"

\* C15 amended: as stated, except that a Burn with amount different from 1
\* requested by the Utility delegate for more than the balance fails with
\* InsufficientTokenBalance, which is checked before the amount.
C15_AmountAndEditionAfterBalance ==
    /\ ( /\ LastBurnRequestAuthorized
         /\ last.pre.metadata.token_standard \in NonFungibleKinds )
        => /\ last.ctx.amount # 1 =>
                last.result =
                    (IF ~LastBurnByHolder /\ last.pre.token.amount < last.ctx.amount
                     THEN "InsufficientTokenBalance" ELSE "InvalidAmount")
           /\ (last.ctx.amount = 1 /\ last.ctx.edition_info = None)
                => last.result = "MissingEdition"
    /\ ( /\ LastBurnRequestAuthorized
         /\ last.pre.metadata.token_standard \in {"Fungible", "FungibleAsset"} )
        => /\ last.result \notin {"InvalidAmount", "MissingEdition"}
           /\ last.ctx.amount <= last.pre.token.amount => last.result = "Ok"

C15_Witness ==
    /\ LastBurnRequestAuthorized
    /\ LastBurnByHolder
    /\ last.pre.metadata.token_standard = "ProgrammableNonFungible"
    /\ last.ctx.amount = 2
    /\ last.ctx.edition_info = None
    /\ last.result = "InvalidAmount"

\* C16: a Sale delegate requested on an asset whose token standard is not
\* ProgrammableNonFungible fails with InvalidTokenStandard, and no ledger
\* delegation is recorded.
C16_SaleOnlyProgrammable ==
    ( /\ LastTokenDelegate
      /\ last.ctx.args = "SaleV1"
      /\ last.pre.metadata.token_standard # "ProgrammableNonFungible" )
    => /\ last.result # "Ok"
       /\ last.ctx.approver = last.pre.token.owner
            => last.result = "InvalidTokenStandard"
       /\ last.raw.token = last.pre.token
       /\ token = last.pre.token

C16_Witness ==
    /\ LastTokenDelegate
    /\ last.ctx.args = "SaleV1"
    /\ last.pre.metadata.token_standard = "NonFungible"
    /\ last.result = "InvalidTokenStandard"
    /\ token.delegate = None

\* C17: a token delegate is created only for the Holder: the approver owns the
\* balance account, the account's mint is the asset's mint and its amount is
\* greater than 0.
C17_OnlyHolderDelegates ==
    (LastTokenDelegate /\ last.result = "Ok")
    => /\ last.ctx.approver = last.pre.token.owner
       /\ last.pre.token.mint = last.pre.metadata.mint
       /\ last.pre.token.amount > 0

\* C18: after a successful token delegate creation on a programmable asset
\* the delegate of the TokenRecord is the delegate spl-token records for the
\* balance account and the delegated amount is the requested amount, whatever
\* creations and replacements came before.
C18_RecordAgreesWithLedger ==
    ( /\ LastTokenDelegate
      /\ last.result = "Ok"
      /\ last.pre.metadata.token_standard = "ProgrammableNonFungible" )
    => /\ token_record.delegate = last.ctx.delegate
       /\ token.delegate = last.ctx.delegate
       /\ token_record.delegate = token.delegate
       /\ token.delegated_amount = last.ctx.amount

\* a replacement: the delegate and the amount differ from the ones before
C18_Witness ==
    /\ LastTokenDelegate
    /\ last.result = "Ok"
    /\ last.pre.token_record.delegate \notin {None, last.ctx.delegate}
    /\ last.pre.token.delegated_amount # last.ctx.amount
    /\ last.pre.token.delegated_amount > 0
    /\ token_record.delegate = token.delegate
    /\ token.delegated_amount = last.ctx.amount

\* the last instruction asked for a metadata delegate (Collection or Update)
LastMetadataDelegate ==
    last.op = "Delegate" /\ last.ctx.args \in {"CollectionV1", "UpdateV1"}

\* the role a metadata delegate variant asks for
MetadataRoleOf(args) == IF args = "CollectionV1" THEN "Collection" ELSE "Update"

\* the record of the last metadata delegate request existed before it
LastRecordExisted ==
    MetadataDelegateRecord(last.ctx.mint_info, MetadataRoleOf(last.ctx.args),
                           last.ctx.approver, last.ctx.delegate)
        \in last.pre.delegate_records

\* C19: creating a metadata delegate whose record (mint, role, approver,
\* delegate) already exists fails with DelegateAlreadyExists and leaves the
\* records as they were.
C19_ExistingRecordKept ==
    (LastMetadataDelegate /\ LastRecordExisted)
    => /\ last.result # "Ok"
       /\ last.ctx \in MetadataDelegateRequests /\ last.ctx.delegate_record_info = "pda"
            => last.result = "DelegateAlreadyExists"
       /\ last.raw.delegate_records = last.pre.delegate_records
       /\ delegate_records = last.pre.delegate_records

C19_Witness ==
    /\ LastMetadataDelegate
    /\ LastRecordExisted
    /\ last.result = "DelegateAlreadyExists"
    /\ delegate_records = last.pre.delegate_records

\* C20: a metadata delegate is created only when the approver signs and is
\* the update authority of the asset; for any other approver the creation
\* fails and no record is created.
C20_OnlyUpdateAuthority ==
    ( /\ LastMetadataDelegate
      /\ \/ ~last.ctx.approver_signer
         \/ last.ctx.approver # last.pre.metadata.update_authority )
    => /\ last.result # "Ok"
       /\ last.raw.delegate_records = last.pre.delegate_records
       /\ delegate_records = last.pre.delegate_records

C20_Witness ==
    /\ LastMetadataDelegate
    /\ last.ctx.approver_signer
    /\ last.ctx.approver # last.pre.metadata.update_authority
    /\ last.ctx.delegate_record_info = "pda"
    /\ last.result = "UpdateAuthorityIncorrect"
    /\ delegate_records = last.pre.delegate_records


\* ------------------------------------------- many metadata delegates

\* metadata delegate requests naming any key as the delegate
ManyMetadataDelegateRequests ==
    {[DelegateBase EXCEPT !.args = v, !.delegate = d, !.approver = a,
                          !.approver_signer = s, !.delegate_record_info = r] :
        v \in {"CollectionV1", "UpdateV1"}, d \in Keys,
        a \in {UpdateAuthority, Holder}, s \in BOOLEAN, r \in {None, "pda"}}

DelegateMany ==
    \E ctx \in ManyMetadataDelegateRequests :
        process_instruction("Delegate", ctx, delegate(Accounts, ctx))

NextMeta == DelegateMany

SpecMeta == Init /\ [][NextMeta]_vars

\* the record the last metadata delegate request asks for
LastRecord ==
    MetadataDelegateRecord(last.ctx.mint_info, MetadataRoleOf(last.ctx.args),
                           last.ctx.approver, last.ctx.delegate)

\* C21: creating the metadata delegate record (mint, role, approver,
\* delegate) succeeds whenever that key is absent, however many other records
\* exist, and leaves every other record unchanged.
C21_ManyRecordsCoexist ==
    ( /\ LastMetadataDelegate
      /\ last.ctx \in ManyMetadataDelegateRequests
      /\ last.ctx.approver_signer
      /\ last.ctx.approver = last.pre.metadata.update_authority
      /\ last.ctx.delegate_record_info = "pda"
      /\ ~LastRecordExisted )
    => /\ last.result = "Ok"
       /\ delegate_records = last.pre.delegate_records \cup {LastRecord}
       /\ last.pre.delegate_records \subseteq delegate_records

\* a third delegate of a role is recorded next to two others of that role
C21_Witness ==
    /\ LastMetadataDelegate
    /\ last.result = "Ok"
    /\ ~LastRecordExisted
    /\ Cardinality({rec \in last.pre.delegate_records : rec.role = LastRecord.role}) = 2
    /\ Cardinality({rec \in delegate_records : rec.role = LastRecord.role}) = 3


\* C22: a Delegate instruction, metadata-scoped or token-scoped, successful or
\* failed, never modifies the Metadata account: every field keeps the value it
\* had before, also in what the handler wrote before returning.
C22_DelegateKeepsMetadata ==
    last.op = "Delegate"
    => /\ metadata = last.pre.metadata
       /\ last.raw.metadata = last.pre.metadata

\* a metadata delegate is created after a token delegate was
C22_Witness ==
    /\ LastMetadataDelegate
    /\ last.result = "Ok"
    /\ token_record.delegate # None
    /\ LastRecord \in delegate_records
    /\ LastRecord \notin last.pre.delegate_records
    /\ metadata = last.pre.metadata


\* ----------------------------------------------------------------- Update

\* the three-state toggles of UpdateArgs: None, Clear, Set(value)
ToggleNone == [tag |-> "None", value |-> None]

ToggleClear == [tag |-> "Clear", value |-> None]

ToggleSet(v) == [tag |-> "Set", value |-> v]

\* CollectionToggle::is_some and the same method of the other toggles
is_some(toggle) == toggle.tag \in {"Clear", "Set"}

\* CollectionToggle::is_none and the same method of the other toggles
is_none(toggle) == toggle.tag = "None"

\* CollectionToggle::is_clear and the same method of the other toggles
is_clear(toggle) == toggle.tag = "Clear"

\* CollectionToggle::is_set and the same method of the other toggles
is_set(toggle) == toggle.tag = "Set"

\* mutant: None converts like Clear
to_option_NoneIsCleared(toggle) ==
    CASE toggle.tag = "Set" -> toggle.value
      [] OTHER -> None

\* CollectionToggle::to_option and the same method of the other toggles:
\* Set(value) is Some(value), Clear is None, None panics
to_option(toggle) ==
    CASE toggle.tag = "Set" -> toggle.value
      [] toggle.tag = "Clear" -> None
      [] OTHER -> "panic"

\* mutant: the default arguments clear the collection and the uses
UpdateArgsDefault_Clears ==
    [authority_type |-> "Metadata", authorization_data |-> None,
     new_update_authority |-> None, data |-> None,
     primary_sale_happened |-> None, is_mutable |-> None,
     collection |-> ToggleClear, uses |-> ToggleClear,
     collection_details |-> ToggleNone, programmable_config |-> ToggleNone]

\* impl Default for UpdateArgs
UpdateArgsDefault ==
    [authority_type |-> "Metadata", authorization_data |-> None,
     new_update_authority |-> None, data |-> None,
     primary_sale_happened |-> None, is_mutable |-> None,
     collection |-> ToggleNone, uses |-> ToggleNone,
     collection_details |-> ToggleNone, programmable_config |-> ToggleNone]

\* a toggle applied to an optional field: None leaves it, Clear empties it,
\* Set replaces it
apply_toggle(current, toggle) ==
    IF is_some(toggle) THEN to_option(toggle) ELSE current

\* the requester of an Update is the update authority or holds an Update
\* delegate record approved by the update authority
update_authorized(S, ctx) ==
    \/ ctx.authority = S.metadata.update_authority
    \/ MetadataDelegateRecord(S.metadata.mint, "Update", S.metadata.update_authority,
                              ctx.authority) \in S.delegate_records

\* mutant: the flags are written as requested
update_flags_AsRequested(S, args) ==
    [S EXCEPT !.metadata.primary_sale_happened =
                  IF args.primary_sale_happened = None THEN @
                  ELSE args.primary_sale_happened = "Some(true)",
              !.metadata.is_mutable =
                  IF args.is_mutable = None THEN @ ELSE args.is_mutable = "Some(true)"]

\* primary_sale_happened is only set to true and is_mutable only to false;
\* a request for the other direction leaves the stored flag
update_flags(S, args) ==
    [S EXCEPT !.metadata.primary_sale_happened =
                  @ \/ args.primary_sale_happened = "Some(true)",
              !.metadata.is_mutable = @ /\ args.is_mutable # "Some(false)"]

\* the request would move a flag against its direction
reverses_flag(S, args) ==
    \/ S.metadata.primary_sale_happened /\ args.primary_sale_happened = "Some(false)"
    \/ ~S.metadata.is_mutable /\ args.is_mutable = "Some(true)"

\* the fields of UpdateArgs applied to the Metadata
update_fields(S, args) ==
    LET flagged == update_flags(S, args)
    IN  [flagged EXCEPT
            !.metadata.update_authority =
                IF args.new_update_authority = None THEN @ ELSE args.new_update_authority,
            !.metadata.data = IF args.data = None THEN @ ELSE args.data,
            !.metadata.collection = apply_toggle(@, args.collection),
            !.metadata.collection_details = apply_toggle(@, args.collection_details),
            !.metadata.uses = apply_toggle(@, args.uses),
            !.metadata.programmable_config = apply_toggle(@, args.programmable_config)]

\* Update: signer, authority, then the fields; a request that reverses a flag
\* is rejected or the flag ignored, as the implementation chose (ctx.reversal)
update_v1(S, ctx) ==
    IF ~ctx.authority_signer THEN Err(S, "MissingRequiredSignature", << >>)
    ELSE IF ~update_authorized(S, ctx) THEN Err(S, "InvalidAuthorityType", << >>)
    ELSE IF reverses_flag(S, ctx.args) /\ ctx.reversal = "rejected"
    THEN Err(S, "InvalidOperation", << >>)
    ELSE Ok(update_fields(S, ctx.args), <<"write_metadata">>)


\* UpdateArgs that change at most one field, or the two flags
UpdateArgsFlags ==
    {[UpdateArgsDefault EXCEPT !.primary_sale_happened = p, !.is_mutable = m] :
        p \in {None, "Some(true)", "Some(false)"},
        m \in {None, "Some(true)", "Some(false)"}}

UpdateArgsFields ==
    {[UpdateArgsDefault EXCEPT !.new_update_authority = "carol"],
     [UpdateArgsDefault EXCEPT !.data = "data1"]}
    \cup UNION {{[UpdateArgsDefault EXCEPT !.collection = t],
                 [UpdateArgsDefault EXCEPT !.collection_details = t],
                 [UpdateArgsDefault EXCEPT !.uses = t],
                 [UpdateArgsDefault EXCEPT !.programmable_config = t]} :
                t \in {ToggleClear, ToggleSet("set")}}
    \cup {[UpdateArgsDefault EXCEPT !.collection = ToggleSet("set"), !.uses = ToggleClear]}

UpdateRequests ==
    {[args |-> a, authority |-> k, authority_signer |-> TRUE, reversal |-> r] :
        a \in UpdateArgsFlags, k \in Keys, r \in {"rejected", "ignored"}}
    \cup {[args |-> a, authority |-> k, authority_signer |-> TRUE, reversal |-> "ignored"] :
        a \in UpdateArgsFields, k \in Keys}
    \cup {[args |-> UpdateArgsDefault, authority |-> UpdateAuthority,
           authority_signer |-> FALSE, reversal |-> "ignored"]}

\* the Metadata account with the fields an Update writes
InitUpdate ==
    /\ \E p \in BOOLEAN, m \in BOOLEAN, c \in {None, "set"}, d \in {None, "set"},
          u \in {None, "set"}, g \in {None, "set"} :
          metadata = [update_authority |-> UpdateAuthority, mint |-> Mint,
                      token_standard |-> "ProgrammableNonFungible",
                      primary_sale_happened |-> p, is_mutable |-> m,
                      data |-> "data0", collection |-> c, collection_details |-> d,
                      uses |-> u, programmable_config |-> g]
    /\ mint_account = [supply |-> 1, decimals |-> 0]
    /\ token_record = [exists |-> TRUE, state |-> "Unlocked", delegate |-> None,
                       delegate_role |-> None]
    /\ token = [owner |-> Holder, mint |-> Mint, amount |-> 1, delegate |-> None,
                delegated_amount |-> 0, frozen |-> FALSE]
    /\ delegate_records \in
          {{}, {MetadataDelegateRecord(Mint, "Update", UpdateAuthority, "carol")}}
    /\ last = [op |-> None, ctx |-> [args |-> None], result |-> None, trace |-> << >>,
               authority_type |-> None, pre |-> Accounts, raw |-> Accounts]

Update ==
    \E ctx \in UpdateRequests : process_instruction("Update", ctx, update_v1(Accounts, ctx))

NextUpdate == Update

SpecUpdate == InitUpdate /\ [][NextUpdate]_vars

\* C23: an Update with the default UpdateArgs (every toggle None, every
\* optional field None) leaves the Metadata unchanged; requested by the update
\* authority or an Update delegate it succeeds.
C23_DefaultUpdateIsNoOp ==
    (last.op = "Update" /\ last.ctx.args = UpdateArgsDefault)
    => /\ metadata = last.pre.metadata
       /\ last.raw.metadata = last.pre.metadata
       /\ (last.ctx.authority_signer /\ update_authorized(last.pre, last.ctx))
            => last.result = "Ok"

\* a default Update accepted on a Metadata with every optional field set
C23_Witness ==
    /\ last.op = "Update"
    /\ last.ctx.args = UpdateArgsDefault
    /\ last.result = "Ok"
    /\ last.pre.metadata.collection # None
    /\ last.pre.metadata.collection_details # None
    /\ last.pre.metadata.uses # None
    /\ last.pre.metadata.programmable_config # None
    /\ last.pre.metadata.primary_sale_happened
    /\ metadata = last.pre.metadata

MaxStringLength == 2

\* strings of at most MaxStringLength bytes; "nul" is the zero byte
Strings == UNION {[1..n -> {"a", "nul"}] : n \in 0..MaxStringLength}

RECURSIVE Nuls(_)
Nuls(n) == IF n <= 0 THEN << >> ELSE <<"nul">> \o Nuls(n - 1)

\* utils::puffed_out_string: the string filled with zero bytes up to size
puffed_out_string(str, size) == str \o Nuls(size - Len(str))

\* the Metadata account before Create
Uninitialized == [key |-> "Uninitialized"]

\* AssetData::new as success_mint calls it, strings filled to their size
AssetDataNew ==
    [name |-> puffed_out_string(<<"a">>, MaxStringLength),
     symbol |-> puffed_out_string(<<"a">>, MaxStringLength),
     uri |-> puffed_out_string(<<"a">>, MaxStringLength),
     seller_fee_basis_points |-> 0,
     creators |-> None, primary_sale_happened |-> FALSE, is_mutable |-> FALSE,
     token_standard |-> "ProgrammableNonFungible", collection |-> None, uses |-> None,
     update_authority |-> UpdateAuthority]

\* the asset data the tests build: AssetData::new with one field filled in
AssetDatas ==
    {[AssetDataNew EXCEPT !.name = n] : n \in Strings}
    \cup {[AssetDataNew EXCEPT !.symbol = y] : y \in Strings}
    \cup {[AssetDataNew EXCEPT !.uri = u] : u \in Strings}
    \cup {[AssetDataNew EXCEPT !.seller_fee_basis_points = 500, !.token_standard = t] :
            t \in TokenStandard}
    \cup {[AssetDataNew EXCEPT !.collection = c, !.uses = v] :
            c \in {None, "collection"}, v \in {None, "uses"}}

\* mutant: the token standard is left to be inferred later
create_NoStandard(S, ctx) ==
    IF S.metadata # Uninitialized THEN Err(S, "AlreadyInitialized", << >>)
    ELSE IF ~ctx.authority_signer THEN Err(S, "MissingRequiredSignature", << >>)
    ELSE Ok([S EXCEPT !.metadata =
                [key |-> "MetadataV1",
                 update_authority |-> ctx.update_authority,
                 mint |-> ctx.mint_info,
                 name |-> puffed_out_string(ctx.asset_data.name, MaxStringLength),
                 symbol |-> puffed_out_string(ctx.asset_data.symbol, MaxStringLength),
                 uri |-> puffed_out_string(ctx.asset_data.uri, MaxStringLength),
                 seller_fee_basis_points |-> ctx.asset_data.seller_fee_basis_points,
                 creators |-> ctx.asset_data.creators,
                 primary_sale_happened |-> FALSE,
                 is_mutable |-> ctx.asset_data.is_mutable,
                 token_standard |-> None,
                 collection |-> ctx.asset_data.collection,
                 uses |-> ctx.asset_data.uses]],
            <<"write_metadata">>)

\* Create: the Metadata account is written from the asset data; name, symbol
\* and uri are stored filled up to their maximum lengths
create(S, ctx) ==
    IF S.metadata # Uninitialized THEN Err(S, "AlreadyInitialized", << >>)
    ELSE IF ~ctx.authority_signer THEN Err(S, "MissingRequiredSignature", << >>)
    ELSE Ok([S EXCEPT !.metadata =
                [key |-> "MetadataV1",
                 update_authority |-> ctx.update_authority,
                 mint |-> ctx.mint_info,
                 name |-> puffed_out_string(ctx.asset_data.name, MaxStringLength),
                 symbol |-> puffed_out_string(ctx.asset_data.symbol, MaxStringLength),
                 uri |-> puffed_out_string(ctx.asset_data.uri, MaxStringLength),
                 seller_fee_basis_points |-> ctx.asset_data.seller_fee_basis_points,
                 creators |-> ctx.asset_data.creators,
                 primary_sale_happened |-> FALSE,
                 is_mutable |-> ctx.asset_data.is_mutable,
                 token_standard |-> ctx.asset_data.token_standard,
                 collection |-> ctx.asset_data.collection,
                 uses |-> ctx.asset_data.uses]],
            <<"write_metadata">>)

\* Mint: tokens are minted to the balance account; the Metadata is read only
mint(S, ctx) ==
    IF S.metadata = Uninitialized THEN Err(S, "Uninitialized", << >>)
    ELSE IF ~ctx.authority_signer THEN Err(S, "MissingRequiredSignature", << >>)
    ELSE IF ctx.amount = 0 THEN Err(S, "AmountMustBeGreaterThanZero", << >>)
    ELSE IF is_nonfungible_kind(S.metadata.token_standard)
            /\ S.mint_account.supply + ctx.amount > 1
    THEN Err(S, "EditionsMustHaveExactlyOneToken", << >>)
    ELSE IF S.mint_account.supply + ctx.amount > MaxAmount
    THEN Err(S, "NumericalOverflowError", << >>)
    ELSE Ok([S EXCEPT !.token.amount = @ + ctx.amount,
                      !.mint_account.supply = @ + ctx.amount],
            <<"mint_to">>)

\* Metadata::into_asset_data: the stored fields read back as asset data
into_asset_data(md) ==
    [name |-> md.name, symbol |-> md.symbol, uri |-> md.uri,
     seller_fee_basis_points |-> md.seller_fee_basis_points,
     creators |-> md.creators, primary_sale_happened |-> md.primary_sale_happened,
     is_mutable |-> md.is_mutable, token_standard |-> md.token_standard,
     collection |-> md.collection, uses |-> md.uses,
     update_authority |-> md.update_authority]

CreateRequests ==
    {[asset_data |-> a, update_authority |-> UpdateAuthority, mint_info |-> Mint,
      authority_signer |-> TRUE] : a \in AssetDatas}

MintRequests ==
    {[amount |-> n, authority_signer |-> g] : n \in 0..MaxAmount, g \in BOOLEAN}

InitCreate ==
    /\ metadata = Uninitialized
    /\ mint_account = [supply |-> 0, decimals |-> 0]
    /\ token_record = NoTokenRecord
    /\ token = [owner |-> Holder, mint |-> Mint, amount |-> 0, delegate |-> None,
                delegated_amount |-> 0, frozen |-> FALSE]
    /\ delegate_records = {}
    /\ last = [op |-> None, ctx |-> [args |-> None], result |-> None, trace |-> << >>,
               authority_type |-> None, pre |-> Accounts, raw |-> Accounts]

Create ==
    \E ctx \in CreateRequests : process_instruction("Create", ctx, create(Accounts, ctx))

MintTokens ==
    \E ctx \in MintRequests : process_instruction("Mint", ctx, mint(Accounts, ctx))

NextCreate == Create \/ MintTokens

SpecCreate == InitCreate /\ [][NextCreate]_vars


Puffed(asset_data) ==
    [asset_data EXCEPT !.name = puffed_out_string(@, MaxStringLength),
                       !.symbol = puffed_out_string(@, MaxStringLength),
                       !.uri = puffed_out_string(@, MaxStringLength)]

LastExpectedStandard ==
    IF last.pre.metadata.token_standard # None THEN last.pre.metadata.token_standard
    ELSE check_token_standard(last.pre, last.ctx)

\* C25: the handlers take the stored token standard when there is one and
\* infer it from the mint and the edition account only when there is none: a
\* Burn follows the rules of that standard, and a Delegate treats the asset as
\* programmable exactly when the stored standard says so.
C25_StoredStandardFirst ==
    /\ ( /\ last.op = "Burn"
         /\ last.ctx \in BurnRequests
         /\ LastBurnByHolder )
        => /\ (LastExpectedStandard \in NonFungibleKinds /\ last.ctx.amount # 1)
                => last.result = "InvalidAmount"
           /\ ( /\ LastExpectedStandard \in NonFungibleKinds
                /\ last.ctx.amount = 1
                /\ last.ctx.edition_info = None )
                => last.result = "MissingEdition"
           /\ ( /\ LastExpectedStandard \in {"NonFungible", "NonFungibleEdition"}
                /\ last.ctx.amount = 1
                /\ last.ctx.edition_info # None )
                => last.result = "Ok" /\ last.trace = <<"burn">>
           /\ (LastExpectedStandard = "ProgrammableNonFungible" /\ last.result = "Ok")
                => last.trace = <<"check_state", "thaw", "burn", "close_token_record">>
           /\ ( /\ LastExpectedStandard \in {"Fungible", "FungibleAsset"}
                /\ last.ctx.amount <= last.pre.token.amount )
                => last.result = "Ok" /\ last.trace = <<"burn">>
    /\ (LastTokenDelegate /\ last.result = "Ok")
        => last.trace =
              (IF last.pre.metadata.token_standard = "ProgrammableNonFungible"
               THEN <<"write_token_record", "thaw", "approve", "freeze">>
               ELSE <<"approve">>)

\* a programmable asset, whose mint and edition look like a NonFungible one,
\* is burned as the stored standard says
C25_Witness ==
    /\ last.op = "Burn"
    /\ LastBurnByHolder
    /\ last.result = "Ok"
    /\ last.pre.metadata.token_standard = "ProgrammableNonFungible"
    /\ check_token_standard(last.pre, last.ctx) = "NonFungible"
    /\ last.trace = <<"check_state", "thaw", "burn", "close_token_record">>
    /\ ~token_record.exists


\* C27: a successful token delegate creation on a programmable asset writes
\* delegate and role to the TokenRecord, thaws the balance account, records
\* the delegation with spl-token and freezes the balance account, in that
\* order, and never ends with the balance account thawed.
C27_DelegateStepOrder ==
    ( /\ LastTokenDelegate
      /\ last.result = "Ok"
      /\ last.pre.metadata.token_standard = "ProgrammableNonFungible" )
    => /\ last.trace = <<"write_token_record", "thaw", "approve", "freeze">>
       /\ last.raw.token.frozen
       /\ token.frozen
       /\ token_record.delegate = last.ctx.delegate
       /\ token.delegate = last.ctx.delegate

\* the delegate of a Locked, frozen record is replaced
C27_Witness ==
    /\ LastTokenDelegate
    /\ last.result = "Ok"
    /\ last.pre.token.frozen
    /\ last.pre.token_record.state = "Locked"
    /\ last.pre.token_record.delegate # last.ctx.delegate
    /\ last.trace = <<"write_token_record", "thaw", "approve", "freeze">>
    /\ token.frozen

\* C28: a successful Burn of a programmable asset checks that the state is
\* Unlocked, thaws the balance account, burns the token and closes the
\* TokenRecord, in that order; no freeze follows the thaw, and a Burn that
\* fails leaves the TokenRecord open.
C28_BurnStepOrder ==
    /\ ( /\ last.op = "Burn"
         /\ last.result = "Ok"
         /\ last.pre.metadata.token_standard = "ProgrammableNonFungible" )
        => /\ last.trace = <<"check_state", "thaw", "burn", "close_token_record">>
           /\ last.pre.token_record.state = "Unlocked"
           /\ ~token.frozen
           /\ token.amount = last.pre.token.amount - 1
           /\ ~token_record.exists
    /\ (last.op = "Burn" /\ last.result # "Ok")
        => /\ last.raw.token_record = last.pre.token_record
           /\ last.raw.token = last.pre.token

\* the Utility delegate burns the token of a frozen balance account
C28_Witness ==
    /\ last.op = "Burn"
    /\ last.result = "Ok"
    /\ last.authority_type = "TokenDelegate"
    /\ last.pre.token.frozen
    /\ last.trace = <<"check_state", "thaw", "burn", "close_token_record">>
    /\ ~token.frozen
    /\ ~token_record.exists


\* C29: Burn is terminal for a programmable token: once a Burn has destroyed
\* the TokenRecord, no later Burn and no later token delegate creation
\* succeeds, whatever the sequence of instructions.
C29_BurnIsTerminal ==
    /\ mint_account.supply = 0 => ~token_record.exists
    /\ ( /\ ~last.pre.token_record.exists
         /\ last.op = "Burn" \/ LastTokenDelegate )
        => /\ last.result # "Ok"
           /\ ~token_record.exists
           /\ token = last.pre.token

\* the holder asks for a delegate on the burned token, naming its TokenRecord
C29_Witness ==
    /\ LastTokenDelegateByHolder
    /\ last.ctx.token_record_info = "pda"
    /\ last.pre.mint_account.supply = 0
    /\ ~last.pre.token_record.exists
    /\ last.result = "DataTypeMismatch"
    /\ ~token_record.exists

\* C30: on a programmable asset a Burn and a token delegate creation that
\* pass no TokenRecord account fail, with MissingTokenRecord when the request
\* is otherwise valid and comes from the holder, and change nothing.
C30_MissingTokenRecord ==
    /\ ( /\ last.op = "Burn"
         /\ last.ctx \in BurnRequests
         /\ last.ctx.token_record_info = None )
        => /\ last.result # "Ok"
           /\ last.raw = last.pre
           /\ Accounts = last.pre
           /\ ( /\ LastBurnByHolder
                /\ last.ctx.amount = 1
                /\ last.ctx.edition_info # None )
                => last.result = "MissingTokenRecord"
    /\ ( /\ LastTokenDelegate
         /\ last.ctx \in TokenDelegateRequests
         /\ last.ctx.token_record_info = None )
        => /\ last.result # "Ok"
           /\ last.raw = last.pre
           /\ Accounts = last.pre
           /\ last.ctx.approver = last.pre.token.owner
                => last.result = "MissingTokenRecord"

\* the holder's Burn was refused for the missing account
C30_Witness ==
    /\ last.op = "Burn"
    /\ LastBurnByHolder
    /\ last.ctx.token_record_info = None
    /\ last.result = "MissingTokenRecord"
    /\ Accounts = last.pre


\* C31: a token delegate creation on a programmable asset that passes no
\* master edition account fails, with MissingEditionAccount when the request
\* is otherwise valid, and the delegate and delegate_role of the TokenRecord
\* are the ones before the call.
C31_NoEditionNoDelegate ==
    ( /\ LastTokenDelegate
      /\ last.pre.metadata.token_standard = "ProgrammableNonFungible"
      /\ last.ctx.master_edition_info = None )
    => /\ last.result # "Ok"
       /\ token_record.delegate = last.pre.token_record.delegate
       /\ token_record.delegate_role = last.pre.token_record.delegate_role
       /\ token = last.pre.token
       /\ ( /\ last.ctx \in TokenDelegateRequests
            /\ last.ctx.approver = last.pre.token.owner
            /\ last.ctx.token_record_info = "pda"
            /\ last.pre.token_record.exists
            /\ last.pre.token_record.delegate_role # "Sale" )
            => last.result = "MissingEditionAccount"

\* the handler had written the new delegate when it found the account missing
C31_Witness ==
    /\ LastTokenDelegate
    /\ last.ctx.master_edition_info = None
    /\ last.result = "MissingEditionAccount"
    /\ last.raw.token_record.delegate = last.ctx.delegate
    /\ last.pre.token_record.delegate # last.ctx.delegate
    /\ token_record = last.pre.token_record


\* what the fixed order of checks lets a programmable Burn with valid
\* accounts report: authority resolution, the checks of the authority type,
\* amount, edition, TokenRecord, state
LastBurnExpected ==
    IF ~LastBurnByHolder /\ ~LastBurnByDelegate({"Utility"}) THEN "InvalidAuthorityType"
    ELSE IF ~LastBurnByHolder /\ last.pre.token.amount < last.ctx.amount
    THEN "InsufficientTokenBalance"
    ELSE IF last.ctx.amount # 1 THEN "InvalidAmount"
    ELSE IF last.ctx.edition_info = None THEN "MissingEdition"
    ELSE IF last.ctx.token_record_info = None THEN "MissingTokenRecord"
    ELSE IF last.pre.token_record.state # "Unlocked" THEN "IncorrectTokenState"
    ELSE "Ok"

\* C32: Burn reports the first failing check in the order authority
\* resolution, holder or delegate checks, amount, edition, TokenRecord, state:
\* on a Listed token a Burn with amount other than 1 fails with InvalidAmount
\* and an unauthorized one with InvalidAuthorityType, never IncorrectTokenState.
C32_BurnCheckOrder ==
    ( /\ last.op = "Burn"
      /\ last.ctx \in BurnRequests
      /\ last.pre.metadata.token_standard = "ProgrammableNonFungible"
      /\ last.pre.token_record.exists )
    => /\ last.result = LastBurnExpected
       /\ ( /\ last.pre.token_record.state = "Listed"
            /\ LastBurnByHolder
            /\ last.ctx.amount # 1 ) => last.result = "InvalidAmount"
       /\ ( /\ last.pre.token_record.state = "Listed"
            /\ ~LastBurnByHolder ) => last.result = "InvalidAuthorityType"

\* the holder asks to burn two tokens of a Listed programmable asset
C32_Witness ==
    /\ last.op = "Burn"
    /\ last.ctx \in BurnRequests
    /\ last.pre.token_record.state = "Listed"
    /\ LastBurnByHolder
    /\ last.ctx.amount = 2
    /\ last.ctx.edition_info = None
    /\ last.ctx.token_record_info = None
    /\ last.result = "InvalidAmount"


\* ------------------------------------- Burn with any accounts passed

\* Burn contexts that pass the account validation, for either mint
BurnAccountRequests ==
    {[BurnBase EXCEPT !.authority = a, !.amount = n, !.mint_info = m,
                      !.edition_info = e, !.token_record_info = r] :
        a \in Keys, n \in 1..MaxAmount, m \in {Mint, OtherMint},
        e \in {None, "edition"}, r \in {None, "pda"}}

\* a programmable asset under a Utility delegate; the Metadata and the
\* balance account passed may belong to another mint, the balance may be empty
InitBurnAccounts ==
    /\ \E m \in {Mint, OtherMint} :
          metadata = [update_authority |-> UpdateAuthority, mint |-> m,
                      token_standard |-> "ProgrammableNonFungible",
                      primary_sale_happened |-> FALSE, is_mutable |-> TRUE]
    /\ mint_account = [supply |-> 1, decimals |-> 0]
    /\ \E st \in {"Unlocked", "Locked"} :
          token_record = [exists |-> TRUE, state |-> st, delegate |-> "bob",
                          delegate_role |-> "Utility"]
    /\ \E m \in {Mint, OtherMint}, n \in 0..1 :
          token = [owner |-> Holder, mint |-> m, amount |-> n, delegate |-> "bob",
                   delegated_amount |-> 1, frozen |-> TRUE]
    /\ delegate_records = {}
    /\ last = [op |-> None, ctx |-> [args |-> None], result |-> None, trace |-> << >>,
               authority_type |-> None, pre |-> Accounts, raw |-> Accounts]

BurnAccounts ==
    \E ctx \in BurnAccountRequests :
        process_instruction("Burn", ctx, burn_v1(Accounts, ctx))

NextBurnAccounts == BurnAccounts

SpecBurnAccounts == InitBurnAccounts /\ [][NextBurnAccounts]_vars

\* C33: a Burn authorized as TokenDelegate fails with MintMismatch when the
\* balance account's mint is not the supplied mint, else with
\* InsufficientTokenBalance when the amount exceeds the balance, else with
\* MintMismatch when the account's mint is not the Metadata's mint; in each
\* case nothing is burned.
C33_DelegateBurnChecks ==
    (last.op = "Burn" /\ last.authority_type = "TokenDelegate")
    => /\ last.pre.token.mint # last.ctx.mint_info => last.result = "MintMismatch"
       /\ ( /\ last.pre.token.mint = last.ctx.mint_info
            /\ last.pre.token.amount < last.ctx.amount )
            => last.result = "InsufficientTokenBalance"
       /\ ( /\ last.pre.token.mint = last.ctx.mint_info
            /\ last.pre.token.amount >= last.ctx.amount
            /\ last.pre.token.mint # last.pre.metadata.mint )
            => last.result = "MintMismatch"
       /\ ( \/ last.pre.token.mint # last.ctx.mint_info
            \/ last.pre.token.amount < last.ctx.amount
            \/ last.pre.token.mint # last.pre.metadata.mint )
            => /\ last.result \in {"MintMismatch", "InsufficientTokenBalance"}
               /\ last.raw = last.pre
               /\ Accounts = last.pre

\* the Utility delegate asks to burn more than the balance
C33_Witness ==
    /\ last.op = "Burn"
    /\ last.authority_type = "TokenDelegate"
    /\ last.ctx.authority = last.pre.token_record.delegate
    /\ last.pre.token.mint = last.ctx.mint_info
    /\ last.pre.token.mint = last.pre.metadata.mint
    /\ last.pre.token.amount = 1
    /\ last.ctx.amount = 2
    /\ last.result = "InsufficientTokenBalance"
    /\ token.amount = 1


\* C34: on an asset whose stored standard is not ProgrammableNonFungible a
\* Transfer or Utility delegation by the holder succeeds whatever TokenRecord
\* and edition accounts are passed, and a successful one changes only the
\* delegate and the delegated amount of the balance account: the only step is
\* the ledger's approve, the frozen flag and the TokenRecord stay as they were.
C34_LedgerOnlyDelegation ==
    ( /\ LastTokenDelegate
      /\ last.ctx.args \in {"TransferV1", "UtilityV1"}
      /\ last.pre.metadata.token_standard # "ProgrammableNonFungible" )
    => /\ ( /\ last.ctx \in TokenDelegateRequests
            /\ last.ctx.approver = last.pre.token.owner
            /\ last.pre.token.amount > 0 ) => last.result = "Ok"
       /\ last.result = "Ok"
            => /\ last.trace = <<"approve">>
               /\ token = [last.pre.token EXCEPT !.delegate = last.ctx.delegate,
                                                 !.delegated_amount = last.ctx.amount]
               /\ token.frozen = last.pre.token.frozen
               /\ last.raw.token_record = last.pre.token_record
               /\ token_record = last.pre.token_record
               /\ metadata = last.pre.metadata
               /\ mint_account = last.pre.mint_account
               /\ delegate_records = last.pre.delegate_records

\* a Utility delegate on a fungible asset, created without TokenRecord and
\* without edition account
C34_Witness ==
    /\ LastTokenDelegate
    /\ last.ctx.args = "UtilityV1"
    /\ last.pre.metadata.token_standard = "Fungible"
    /\ last.ctx.token_record_info = None
    /\ last.ctx.master_edition_info = None
    /\ last.result = "Ok"
    /\ last.pre.token.delegate = None
    /\ token.delegate = last.ctx.delegate
    /\ token.delegated_amount = last.ctx.amount
    /\ ~token.frozen
    /\ ~token_record.exists


\* the error the claim names for the account of a Burn context that fails the
\* structural validation, None when every account passes
StructuralFault(ctx) ==
    IF ~ctx.authority_signer THEN "MissingRequiredSignature"
    ELSE IF \/ ctx.metadata_owner # PROGRAM
            \/ ctx.mint_owner # SPL_TOKEN
            \/ ctx.token_owner # SPL_TOKEN
            \/ ctx.edition_info # None /\ ctx.edition_owner # PROGRAM
    THEN "IncorrectOwner"
    ELSE IF \/ ctx.spl_token_program_info # SPL_TOKEN
            \/ ctx.system_program_info # SYSTEM_PROGRAM
            \/ ctx.sysvar_instructions_info # SYSVAR_INSTRUCTIONS
    THEN "IncorrectProgramId"
    ELSE None

\* C35: a Burn whose authority has not signed fails with
\* MissingRequiredSignature, one whose metadata, mint, token or edition account
\* has the wrong owner with IncorrectOwner, one whose token program, system
\* program or instructions sysvar is not the expected account with
\* IncorrectProgramId; whoever asks and whatever the state of the TokenRecord,
\* no authority category is resolved, no step is taken and no account changes.
C35_StructuralValidationFirst ==
    (last.op = "Burn" /\ StructuralFault(last.ctx) # None)
    => /\ last.result = StructuralFault(last.ctx)
       /\ last.authority_type = None
       /\ last.trace = << >>
       /\ last.raw = last.pre
       /\ Accounts = last.pre

\* the holder of an Unlocked asset, who would otherwise burn it, passes a wrong
\* instructions sysvar
C35_Witness ==
    /\ last.op = "Burn"
    /\ last.ctx.authority = last.pre.token.owner
    /\ last.pre.token.amount = 1
    /\ last.pre.token_record.exists
    /\ last.pre.token_record.state = "Unlocked"
    /\ last.ctx.sysvar_instructions_info # SYSVAR_INSTRUCTIONS
    /\ last.ctx = [BurnBase EXCEPT !.sysvar_instructions_info = OtherKey]
    /\ last.result = "IncorrectProgramId"
    /\ last.authority_type = None
    /\ token.amount = 1


\* the four toggles of the arguments of the last Update
LastToggles ==
    {last.ctx.args.collection, last.ctx.args.collection_details,
     last.ctx.args.uses, last.ctx.args.programmable_config}

\* C36: of every toggle passed to an Update exactly one of is_none, is_clear
\* and is_set holds, is_some holds exactly when is_none does not, to_option
\* gives the value of a Set, None for a Clear and panics for a None, so that
\* the conversion of a None is never the conversion of a Clear.
C36_ToggleStates ==
    last.op = "Update" =>
        \A t \in LastToggles :
            /\ is_none(t) \/ is_clear(t) \/ is_set(t)
            /\ ~(is_none(t) /\ is_clear(t))
            /\ ~(is_none(t) /\ is_set(t))
            /\ ~(is_clear(t) /\ is_set(t))
            /\ is_some(t) <=> ~is_none(t)
            /\ is_set(t) => to_option(t) = t.value /\ to_option(t) \notin {None, "panic"}
            /\ is_clear(t) => to_option(t) = None
            /\ is_none(t) => to_option(t) = "panic"
            /\ is_none(t) => to_option(t) # to_option(ToggleClear)

\* an Update that sets the collection, clears the uses and leaves the other two
C36_Witness ==
    /\ last.op = "Update"
    /\ is_set(last.ctx.args.collection)
    /\ to_option(last.ctx.args.collection) = "set"
    /\ is_clear(last.ctx.args.uses)
    /\ to_option(last.ctx.args.uses) = None
    /\ is_none(last.ctx.args.collection_details)
    /\ is_none(last.ctx.args.programmable_config)
    /\ ~is_some(last.ctx.args.programmable_config)
    /\ last.result = "Ok"

====
